---- MODULE Spec2Model ----
(***************************************************************************)
(* Model of app/utils.py of the EU Clinical Trials scraper:                *)
(*   extract_text_and_tables_from_pdf   (document extractor)               *)
(*   get_json_data_in_pandas            (trial normalizer)                 *)
(*   write_csv_to_s3                    (object-storage export)            *)
(*                                                                         *)
(* Python strings the code inspects (titles, URLs, page text) are          *)
(* sequences of one-character strings; identifiers the code only copies    *)
(* (eudract numbers, sponsor names, version labels) are TLA+ strings.      *)
(* A Python dict is a record; a missing key is a missing record field.     *)
(***************************************************************************)
EXTENDS Integers, Sequences, FiniteSets, TLC

VARIABLES
    \* ---- extract_text_and_tables_from_pdf ----
    zip_bytes,      \* the archive: a sequence of entries, each a sequence of pages
    pc,             \* position in the extractor: "start", "pages", "done", "raised"
    pdf,            \* pages of the opened document
    page_no,        \* number of pages of pdf already processed
    text,           \* accumulated text
    tables,         \* accumulated tables
    \* ---- get_json_data_in_pandas / write_csv_to_s3 ----
    json_data,      \* json_data["successes"], the batch object (mutable, shared with the caller)
    passed,         \* the batch as it was at entry of each call made so far
    calls,          \* number of calls of get_json_data_in_pandas made
    ret,            \* outcome of the latest call
    prev,           \* outcome of the call before the latest
    s3              \* progress of write_csv_to_s3

extractVars == <<zip_bytes, pc, pdf, page_no, text, tables>>
normVars == <<json_data, passed, calls, ret, prev, s3>>
vars == <<zip_bytes, pc, pdf, page_no, text, tables, json_data, passed, calls, ret, prev, s3>>

(***************************************************************************)
(* Bounds                                                                  *)
(***************************************************************************)
MaxPages == 2       \* pages per document
MaxTrials == 2      \* trials per batch
MaxCalls == 2       \* successive calls of the normalizer on one batch

(***************************************************************************)
(* Generic helpers                                                         *)
(***************************************************************************)
SeqsUpTo(S, n) == UNION {[1..k -> S] : k \in 0..n}

Last(s) == s[Len(s)]

RECURSIVE Concat(_)
Concat(ss) == IF ss = <<>> THEN <<>> ELSE Head(ss) \o Concat(Tail(ss))

(***************************************************************************)
(* extract_text_and_tables_from_pdf                                        *)
(***************************************************************************)
Newline == <<"\n">>

\* page.extract_text(): pdfplumber gives None or "" for a page without text;
\* a page without the field "text" is one whose extract_text() is None.
HasNoText(page) == "text" \notin DOMAIN page
extract_text(page) == IF HasNoText(page) THEN <<>> ELSE page.text
extract_tables(page) == page.tables

\* `if page_text:` -- None and "" are both falsy
TruthyText(page) == ~HasNoText(page) /\ page.text # <<>>

\* lines 91-92
AppendPageTextBug(t, page) == IF TruthyText(page) THEN t \o extract_text(page) ELSE t
AppendPageText(t, page) == IF TruthyText(page) THEN t \o extract_text(page) \o Newline ELSE t

\* lines 93-95
AppendPageTables(ts, page) == ts \o extract_tables(page)

PageTexts == { <<>>, <<"T">>, <<"U", "V">> }
TableLists == { <<>>, <<"t1">>, <<"t2", "t3">> }
PageSet == { [tables |-> tl] : tl \in TableLists }
           \cup { [text |-> tx, tables |-> tl] : tx \in PageTexts, tl \in TableLists }
DocSet == SeqsUpTo(PageSet, MaxPages)
\* a second entry of the archive, which namelist()[0] never selects
DecoyDoc == << [text |-> <<"D">>, tables |-> <<"td">>] >>
ArchiveSet == { <<>> } \cup { <<d>> : d \in DocSet } \cup { <<d, DecoyDoc>> : d \in DocSet }

ExtractIdle ==
    /\ pc = "idle" /\ zip_bytes = <<>> /\ pdf = <<>> /\ page_no = 0
    /\ text = <<>> /\ tables = <<>>

\* lines 80-82
InitExtract ==
    /\ zip_bytes \in ArchiveSet
    /\ pc = "start"
    /\ pdf = <<>>
    /\ page_no = 0
    /\ text = <<>>
    /\ tables = <<>>

\* lines 84-88: namelist()[0] raises IndexError on an archive without entries
OpenPdf ==
    /\ pc = "start"
    /\ IF zip_bytes = <<>>
       THEN pc' = "raised" /\ pdf' = pdf
       ELSE pc' = "pages" /\ pdf' = zip_bytes[1]
    /\ UNCHANGED <<zip_bytes, page_no, text, tables>>
    /\ UNCHANGED normVars

\* lines 89-95: one iteration of `for page in pdf.pages`
ExtractPage ==
    /\ pc = "pages"
    /\ page_no < Len(pdf)
    /\ page_no' = page_no + 1
    /\ text' = AppendPageText(text, pdf[page_no + 1])
    /\ tables' = AppendPageTables(tables, pdf[page_no + 1])
    /\ UNCHANGED <<zip_bytes, pc, pdf>>
    /\ UNCHANGED normVars

\* line 96
ReturnExtract ==
    /\ pc = "pages"
    /\ page_no = Len(pdf)
    /\ pc' = "done"
    /\ UNCHANGED <<zip_bytes, pdf, page_no, text, tables>>
    /\ UNCHANGED normVars

(***************************************************************************)
(* Python string and JSON helpers used by get_json_data_in_pandas          *)
(***************************************************************************)
Ellipsis == <<".", ".", ".">>

\* str.endswith
EndsWith(s, suffix) ==
    /\ Len(s) >= Len(suffix)
    /\ SubSeq(s, Len(s) - Len(suffix) + 1, Len(s)) = suffix

\* str.split(sep) for a one-character separator
RECURSIVE Split(_, _)
Split(s, sep) ==
    IF \A i \in 1..Len(s) : s[i] # sep
    THEN <<s>>
    ELSE LET k == CHOOSE i \in 1..Len(s) : s[i] = sep /\ \A j \in 1..(i - 1) : s[j] # sep
         IN  <<SubSeq(s, 1, k - 1)>> \o Split(SubSeq(s, k + 1, Len(s)), sep)

\* list[-2:]
LastTwo(l) == IF Len(l) <= 2 THEN l ELSE SubSeq(l, Len(l) - 1, Len(l))

\* sep.join(list)
RECURSIVE Join(_, _)
Join(sep, l) ==
    IF l = <<>> THEN <<>>
    ELSE IF Len(l) = 1 THEN l[1]
    ELSE l[1] \o sep \o Join(sep, Tail(l))

\* lines 156-157
ProtocolIdBug(url) == Last(Split(url, "/"))
ProtocolId(url) == Join(<<"-">>, LastTwo(Split(url, "/")))

\* pandas values
None == [kind |-> "None"]
NaT == [kind |-> "NaT"]
Timestamp(y, m, d) == [kind |-> "Timestamp", year |-> y, month |-> m, day |-> d]

IsLeap(y) == (y % 4 = 0 /\ y % 100 # 0) \/ y % 400 = 0
DaysInMonth(y, m) ==
    IF m = 2 THEN (IF IsLeap(y) THEN 29 ELSE 28)
    ELSE IF m \in {4, 6, 9, 11} THEN 30 ELSE 31

\* A date string is the sequence of its numeric fields: "2020-02-29" is
\* <<2020, 2, 29>> and "" is <<>>.
Parsable(s) ==
    /\ Len(s) = 3
    /\ s[2] \in 1..12
    /\ s[3] \in 1..DaysInMonth(s[1], s[2])

\* pd.to_datetime(value, errors='coerce')
to_datetime(s) == IF Parsable(s) THEN Timestamp(s[1], s[2], s[3]) ELSE NaT

\* pd.isnull
isnull(v) == v = NaT \/ v = None

\* lines 132-135
TrialStartDateBug(card) == to_datetime(card.start_date)
TrialStartDate(card) ==
    LET trial_start_date == to_datetime(card.start_date)
    IN  IF isnull(trial_start_date) THEN None ELSE trial_start_date

(***************************************************************************)
(* json.dumps: the text of an object, as a sequence of tokens              *)
(***************************************************************************)
Quote(chars) == <<"\"">> \o chars \o <<"\"">>
Key(k) == <<"\"", k, "\"", ":">>

RECURSIVE DumpsList(_)
DumpsList(items) ==
    IF items = <<>> THEN <<>>
    ELSE IF Len(items) = 1 THEN items[1]
    ELSE items[1] \o <<",">> \o DumpsList(Tail(items))

DumpsArray(items) == <<"[">> \o DumpsList(items) \o <<"]">>
DumpsObject(members) == <<"{">> \o DumpsList(members) \o <<"}">>

DumpsDate(s) == Quote([i \in 1..Len(s) |-> ToString(s[i])])

DumpsDisease(d) ==
    DumpsObject(<< Key("version") \o Quote(<<d.version>>),
                   Key("soc_term") \o Quote(<<d.soc_term>>),
                   Key("classification_code") \o Quote(<<d.classification_code>>),
                   Key("term") \o Quote(<<d.term>>),
                   Key("level") \o Quote(<<d.level>>) >>)

DumpsCard(c) ==
    DumpsObject(<< Key("eudract_number") \o Quote(<<c.eudract_number>>),
                   Key("start_date") \o DumpsDate(c.start_date),
                   Key("sponsor_name") \o Quote(<<c.sponsor_name>>),
                   Key("full_title") \o Quote(c.full_title),
                   Key("disease") \o DumpsDisease(c.disease) >>)

DumpsProtocol(p) ==
    DumpsObject(
        << Key("url") \o Quote(p.url) >>
        \o (IF "A. Protocol Information" \in DOMAIN p
            THEN << Key("A. Protocol Information")
                    \o DumpsObject(
                         IF "Full title of the trial" \in DOMAIN p["A. Protocol Information"]
                         THEN << Key("Full title of the trial")
                                 \o DumpsArray([i \in 1..Len(p["A. Protocol Information"]["Full title of the trial"])
                                                  |-> Quote(p["A. Protocol Information"]["Full title of the trial"][i])]) >>
                         ELSE <<>>) >>
            ELSE <<>>))

DumpsValue(v) ==
    DumpsObject(<< Key("summary")
                   \o DumpsObject(IF "url" \in DOMAIN v.summary
                                  THEN << Key("url") \o Quote(v.summary.url) >>
                                  ELSE <<>>) >>)

DumpsResult(result) ==
    DumpsObject(
        << Key("card") \o DumpsCard(result.card),
           Key("protocols") \o DumpsArray([i \in 1..Len(result.protocols) |-> DumpsProtocol(result.protocols[i])]) >>
        \o (IF "results" \in DOMAIN result
            THEN << Key("results")
                    \o DumpsObject([i \in 1..Len(result.results)
                                      |-> Key(result.results[i].version) \o DumpsValue(result.results[i].value)]) >>
            ELSE <<>>))

(***************************************************************************)
(* get_json_data_in_pandas                                                 *)
(***************************************************************************)
Info == "A. Protocol Information"
FullTitle == "Full title of the trial"

\* `not json_data["successes"] or len(json_data["successes"]) < 1`, line 115
IsEmptyBatchBug(successes) == Len(successes) < 0
IsEmptyBatch(successes) == successes = <<>> \/ Len(successes) < 1

\* `if not result`, line 127
IsEmptyResult(result) == DOMAIN result = {}

\* protocols[0]["A. Protocol Information"]["Full title of the trial"][0] raises
\* IndexError or KeyError unless every step of the path exists
HasFallbackTitle(protocols) ==
    /\ Len(protocols) >= 1
    /\ Info \in DOMAIN protocols[1]
    /\ FullTitle \in DOMAIN protocols[1][Info]
    /\ Len(protocols[1][Info][FullTitle]) >= 1

\* right-hand side of line 138
FallbackTitleBug(protocols) == Last(Last(protocols)[Info][FullTitle])
FallbackTitle(protocols) == protocols[1][Info][FullTitle][1]

\* line 137
IsTruncated(card) == EndsWith(card.full_title, Ellipsis)

\* line 138: the assignment stores into the card held by the batch
StoreFullTitle(result, title) == [result EXCEPT !.card.full_title = title]

\* line 150: json.dumps(result) runs after the store of line 138 and reads the
\* same object; entry is the trial as it was when the iteration began
CardJsonBug(entry, result) == DumpsResult(entry)
CardJson(entry, result) == DumpsResult(result)

\* lines 140-151
NewCardInfoRow(entry, result) ==
    [ eudract_number      |-> result.card.eudract_number,
      start_date          |-> TrialStartDate(result.card),
      sponsor_name        |-> result.card.sponsor_name,
      full_title          |-> result.card.full_title,
      version             |-> result.card.disease.version,
      soc_term            |-> result.card.disease.soc_term,
      classification_code |-> result.card.disease.classification_code,
      term                |-> result.card.disease.term,
      level               |-> result.card.disease.level,
      json                |-> CardJson(entry, result) ]

\* lines 156-159
ProtocolRow(eudract_number, protocol) ==
    [ protocol_id    |-> ProtocolId(protocol.url),
      eudract_number |-> eudract_number,
      url            |-> protocol.url,
      json           |-> DumpsProtocol(protocol) ]

\* line 161-162: a missing or empty results mapping gives no rows
ResultItems(result) == IF "results" \in DOMAIN result THEN result.results ELSE <<>>

\* value['summary']['url'] raises KeyError when the key is missing
HasSummaryUrl(value) == "summary" \in DOMAIN value /\ "url" \in DOMAIN value.summary

\* line 165
ResultRow(eudract_number, item) ==
    [ eudract_number |-> eudract_number,
      version        |-> item.version,
      url            |-> item.value.summary.url,
      json           |-> DumpsValue(item.value) ]

\* lines 164-165: rows appended before the first version that raises
RECURSIVE ResultRows(_, _)
ResultRows(eudract_number, items) ==
    IF items = <<>> \/ ~HasSummaryUrl(items[1].value) THEN <<>>
    ELSE <<ResultRow(eudract_number, items[1])>> \o ResultRows(eudract_number, Tail(items))

\* lines 127-166: the body of the loop for successes[i]; st holds the batch,
\* the three data frames and whether an exception has left the function
LoopBody(st, i) ==
    LET entry == st.successes[i] IN
    IF IsEmptyResult(entry) THEN st
    ELSE IF IsTruncated(entry.card) /\ ~HasFallbackTitle(entry.protocols)
    THEN [st EXCEPT !.raised = TRUE]
    ELSE
      LET result == IF IsTruncated(entry.card)
                    THEN StoreFullTitle(entry, FallbackTitle(entry.protocols))
                    ELSE entry
          eudract_number == result.card.eudract_number
          items == ResultItems(result)
      IN  [ successes |-> [st.successes EXCEPT ![i] = result],
            cards     |-> Append(st.cards, NewCardInfoRow(entry, result)),
            protocols |-> st.protocols
                          \o [k \in 1..Len(result.protocols)
                                |-> ProtocolRow(eudract_number, result.protocols[k])],
            results   |-> st.results \o ResultRows(eudract_number, items),
            raised    |-> \E k \in 1..Len(items) : ~HasSummaryUrl(items[k].value) ]

\* line 126: for result in json_data["successes"]
RECURSIVE Loop(_, _)
Loop(st, i) ==
    IF st.raised \/ i > Len(st.successes) THEN st
    ELSE Loop(LoopBody(st, i), i + 1)

NoneTriple == [kind |-> "None"]
Raised == [kind |-> "raised"]
NotCalled == [kind |-> "notcalled"]
Frames(st) == [kind |-> "tables", cards |-> st.cards, protocols |-> st.protocols,
               results |-> st.results]

\* lines 115-167 on the batch `successes`: the batch as the call leaves it and
\* what the call returns
Run(successes) ==
    IF IsEmptyBatch(successes)
    THEN [successes |-> successes, out |-> NoneTriple]
    ELSE LET st == Loop([successes |-> successes, cards |-> <<>>, protocols |-> <<>>,
                         results |-> <<>>, raised |-> FALSE], 1)
         IN  [successes |-> st.successes,
              out |-> IF st.raised THEN Raised ELSE Frames(st)]

(***************************************************************************)
(* write_csv_to_s3                                                         *)
(***************************************************************************)
\* the put_object calls of lines 207, 209, 211, in program order
Uploads == <<"cards", "protocols", "results">>

\* put_object calls reached when those for the tables in `failing` raise:
\* no try/except surrounds them, so the first exception ends the function
RECURSIVE Attempted(_, _)
Attempted(uploads, failing) ==
    IF uploads = <<>> THEN <<>>
    ELSE IF uploads[1] \in failing THEN <<uploads[1]>>
    ELSE <<uploads[1]>> \o Attempted(Tail(uploads), failing)

S3Idle == [status |-> "idle", attempted |-> <<>>, failed |-> {}]

\* lines 191-212, given what get_json_data_in_pandas returned
Upload(out, failing) ==
    IF out = Raised THEN [status |-> "raised", attempted |-> <<>>, failed |-> {}]
    ELSE IF out = NoneTriple THEN [status |-> "nodata", attempted |-> <<>>, failed |-> {}]
    ELSE LET att == Attempted(Uploads, failing)
             bad == {att[k] : k \in 1..Len(att)} \cap failing
         IN  [status |-> IF bad = {} THEN "done" ELSE "raised",
              attempted |-> att, failed |-> bad]

(***************************************************************************)
(* Batches                                                                 *)
(***************************************************************************)
Disease == [version |-> "21.0", soc_term |-> "soc", classification_code |-> "100",
            term |-> "term", level |-> "PT"]

Card(eudract_number, start_date, full_title) ==
    [eudract_number |-> eudract_number, start_date |-> start_date,
     sponsor_name |-> "sponsor", full_title |-> full_title, disease |-> Disease]

Trial(card, protocols) == [card |-> card, protocols |-> protocols]
TrialWithResults(card, protocols, results) ==
    [card |-> card, protocols |-> protocols, results |-> results]
EmptyTrial == [k \in {} |-> {}]

Protocol(url) == [url |-> url]
ProtocolWithInfo(url, info) == ("url" :> url) @@ (Info :> info)
Titled(url, titles) == ProtocolWithInfo(url, (FullTitle :> titles))

UrlDE == <<"h", "/", "T", "/", "D">>
UrlFR == <<"h", "/", "T", "/", "F">>
UrlAlt == <<"g", "/", "T", "/", "D">>
UrlShort == <<"T", "/", "D">>
UrlBare == <<"D">>
UrlSlash == <<"h", "/", "T", "/">>
SummaryUrl == <<"r", "/", "T">>

TitleFull == <<"X", "Y">>
TitleOther == <<"X", "Z">>
TitleTruncated == <<"X", ".", ".", ".">>
TitleTwoDots == <<"X", ".", ".">>
TitleOnlyDots == <<".", ".", ".">>

DateGood == <<2020, 2, 29>>
DateBadDay == <<2021, 2, 29>>
DateBadMonth == <<2021, 13, 1>>
DateEmpty == <<>>

Summary == [summary |-> [url |-> SummaryUrl]]
NoSummaryUrl == [summary |-> [k \in {} |-> {}]]
Version(v, value) == [version |-> v, value |-> value]

\* what the protocols of a trial can offer as a replacement title
ProtocolLists ==
    { <<>>,
      <<Protocol(UrlDE)>>,
      <<ProtocolWithInfo(UrlDE, [k \in {} |-> {}])>>,
      <<Titled(UrlDE, <<>>)>>,
      <<Titled(UrlDE, <<TitleFull>>)>>,
      <<Titled(UrlDE, <<TitleTruncated>>)>>,
      <<Titled(UrlDE, <<TitleOther, TitleFull>>), Titled(UrlFR, <<TitleFull>>)>>,
      <<Protocol(UrlDE), Titled(UrlFR, <<TitleFull>>)>> }

\* trials that differ in the card title and in the replacement on offer
TitleTrials ==
    { Trial(Card("E1", DateGood, TitleTruncated), ps) : ps \in ProtocolLists }
    \cup { Trial(Card("E1", DateGood, t), ps) :
             t \in {TitleFull, TitleTwoDots, TitleOnlyDots},
             ps \in { <<>>,
                      <<Titled(UrlDE, <<TitleOther, TitleFull>>), Titled(UrlFR, <<TitleFull>>)>> } }

\* trials that differ in the protocol URLs
UrlTrials ==
    { Trial(Card("E2", DateGood, TitleFull), ps) :
        ps \in { <<Protocol(UrlDE), Protocol(UrlFR)>>,
                 <<Protocol(UrlDE), Protocol(UrlAlt)>>,
                 <<Protocol(UrlShort)>>,
                 <<Protocol(UrlBare)>>,
                 <<Protocol(UrlSlash)>> } }
    \cup { Trial(Card("E1", DateGood, TitleFull), <<Protocol(UrlAlt), Protocol(UrlFR)>>) }

\* trials that differ in the start date
DateTrials ==
    { Trial(Card("E2", d, TitleFull), <<Titled(UrlFR, <<TitleFull>>)>>) :
        d \in {DateGood, DateBadDay, DateBadMonth, DateEmpty} }
    \cup { Trial(Card("E2", DateBadDay, TitleTruncated), <<Titled(UrlFR, <<TitleFull>>)>>) }

\* trials that differ in the results mapping
ResultTrials ==
    { TrialWithResults(Card("E1", DateGood, TitleFull), <<Titled(UrlDE, <<TitleFull>>)>>, rs) :
        rs \in { <<>>,
                 <<Version("1", Summary)>>,
                 <<Version("1", Summary), Version("2", Summary)>>,
                 <<Version("1", Summary), Version("2", NoSummaryUrl)>>,
                 <<Version("1", NoSummaryUrl), Version("2", Summary)>> } }
    \cup { TrialWithResults(Card("E1", DateBadMonth, TitleTruncated),
                            <<Titled(UrlDE, <<TitleFull>>)>>,
                            <<Version("1", Summary), Version("2", NoSummaryUrl)>>) }

TrialSet == TitleTrials \cup UrlTrials \cup DateTrials \cup ResultTrials \cup {EmptyTrial}
BatchSet == SeqsUpTo(TrialSet, MaxTrials)

(***************************************************************************)
(* The normalizer and the export as a state machine                        *)
(***************************************************************************)
NormIdle ==
    /\ json_data = <<>> /\ passed = <<>> /\ calls = 0
    /\ ret = NotCalled /\ prev = NotCalled /\ s3 = S3Idle

InitNorm ==
    /\ json_data \in BatchSet
    /\ passed = <<>>
    /\ calls = 0
    /\ ret = NotCalled
    /\ prev = NotCalled
    /\ s3 = S3Idle

\* the effect of one call of get_json_data_in_pandas(json_data)
Call ==
    /\ passed' = Append(passed, json_data)
    /\ json_data' = Run(json_data).successes
    /\ ret' = Run(json_data).out
    /\ prev' = ret
    /\ calls' = calls + 1

\* a caller normalizes the batch it holds
get_json_data_in_pandas ==
    /\ calls < MaxCalls
    /\ Call
    /\ UNCHANGED s3
    /\ UNCHANGED extractVars

\* main.py, lines 58-61: each scraped batch is exported once, before anything
\* else reads it; the store fails for any subset of the three objects
write_csv_to_s3 ==
    /\ calls = 0
    /\ s3.status = "idle"
    /\ Call
    /\ \E failing \in SUBSET {"cards", "protocols", "results"} :
          s3' = Upload(Run(json_data).out, failing)
    /\ UNCHANGED extractVars

Init == InitNorm /\ ExtractIdle
Next == get_json_data_in_pandas \/ write_csv_to_s3
Spec == Init /\ [][Next]_vars

InitPdf == InitExtract /\ NormIdle
NextPdf == OpenPdf \/ ExtractPage \/ ReturnExtract
SpecPdf == InitPdf /\ [][NextPdf]_vars

(***************************************************************************)
(* Properties                                                              *)
(***************************************************************************)
\* the batch the latest call received, and its trials that produce rows
Arg == Last(passed)
Kept(batch) == SelectSeq(batch, LAMBDA r : DOMAIN r # {})
Returned == calls >= 1 /\ ret.kind = "tables"

FirstProtocolTitles(trial) == Head(trial.protocols)[Info][FullTitle]
OffersTitle(trial) ==
    /\ trial.protocols # <<>>
    /\ Info \in DOMAIN Head(trial.protocols)
    /\ FullTitle \in DOMAIN Head(trial.protocols)[Info]
    /\ FirstProtocolTitles(trial) # <<>>

\* C1: every trial whose card title ends with "..." gets, in its cards row,
\* the first "Full title of the trial" of "A. Protocol Information" of its
\* first protocol; hence no row keeps a title ending in "..." when the first
\* protocol holds a title that does not.
C1_FullTitleFallback ==
    Returned =>
        /\ Len(ret.cards) = Len(Kept(Arg))
        /\ \A k \in 1..Len(Kept(Arg)) :
             LET trial == Kept(Arg)[k] IN
             /\ EndsWith(trial.card.full_title, Ellipsis)
                   => ret.cards[k].full_title = Head(FirstProtocolTitles(trial))
             /\ (OffersTitle(trial) /\ ~EndsWith(Head(FirstProtocolTitles(trial)), Ellipsis))
                   => ~EndsWith(ret.cards[k].full_title, Ellipsis)

C1_Witness ==
    /\ Returned
    /\ \E k \in 1..Len(Kept(Arg)) :
         /\ Kept(Arg)[k].card.full_title = TitleTruncated
         /\ Len(Kept(Arg)[k].protocols) = 2
         /\ ret.cards[k].full_title = TitleOther

\* C2: no two protocols rows of one trial whose URLs differ carry the same
\* protocol_id (a case of: protocol_id is unique within the run).
C2_ProtocolIdUnique ==
    Returned =>
        \A i, j \in 1..Len(ret.protocols) :
            ( /\ ret.protocols[i].eudract_number = ret.protocols[j].eudract_number
              /\ ret.protocols[i].url # ret.protocols[j].url )
            => ret.protocols[i].protocol_id # ret.protocols[j].protocol_id

\* the only defect of the batch is a results version without a summary URL
LacksSummaryUrl(trial) ==
    /\ "results" \in DOMAIN trial
    /\ \E k \in 1..Len(trial.results) : "url" \notin DOMAIN trial.results[k].value.summary
TitleUnrecoverable(trial) ==
    EndsWith(trial.card.full_title, Ellipsis) /\ ~OffersTitle(trial)
OnlySummaryUrlMissing(batch) ==
    /\ \E k \in 1..Len(Kept(batch)) : LacksSummaryUrl(Kept(batch)[k])
    /\ \A k \in 1..Len(Kept(batch)) : ~TitleUnrecoverable(Kept(batch)[k])

\* C3: a results version without a summary URL costs only its own row: the
\* call still returns the tables, with a cards row for every trial.
C3_MissingSummaryUrlConfined ==
    (calls >= 1 /\ OnlySummaryUrlMissing(Arg)) =>
        /\ ret.kind = "tables"
        /\ Len(ret.cards) = Len(Kept(Arg))

EmptyFrames == [kind |-> "tables", cards |-> <<>>, protocols |-> <<>>, results |-> <<>>]

\* C4, as claimed: normalizing an empty batch returns three empty tables.
C4_EmptyBatchGivesEmptyTables ==
    (calls >= 1 /\ Arg = <<>>) => ret = EmptyFrames

\* C4, amended: normalizing an empty batch returns (None, None, None) without
\* raising, and write_csv_to_s3 then attempts no upload.
C4_EmptyBatchGivesNone ==
    (calls >= 1 /\ Arg = <<>>) =>
        /\ ret = [kind |-> "None"]
        /\ s3.status \in {"idle", "nodata"}
        /\ s3.attempted = <<>>

C4_Witness == calls >= 1 /\ Arg = <<>> /\ s3.status = "nodata" /\ ret.kind = "None"

\* C5: when the put_object call of one table fails, the put_object calls of
\* the other two tables are still attempted.
C5_UploadsIndependent ==
    s3.failed # {} => {s3.attempted[k] : k \in 1..Len(s3.attempted)} = {"cards", "protocols", "results"}

\* C6: the json column of every cards row is the serialization of the trial
\* as it was passed in, and the call leaves the batch unchanged.
C6_RawJsonVerbatim ==
    Returned =>
        /\ json_data = Arg
        /\ \A k \in 1..Len(ret.cards) : ret.cards[k].json = DumpsResult(Kept(Arg)[k])

\* C7: two successive calls on the same batch return the same thing: the same
\* three tables, row for row.
C7_Idempotent ==
    calls >= 2 => ret = prev

C7_Witness ==
    /\ calls = 2
    /\ ret.kind = "tables"
    /\ prev.kind = "tables"
    /\ passed[1] # passed[2]
    /\ \E k \in 1..Len(Kept(passed[1])) : EndsWith(Kept(passed[1])[k].card.full_title, Ellipsis)

\* the part of url after its last but one "/" (all of it when it has fewer
\* than two), with the last "/" turned into "-"
SlashesOf(url) == {i \in 1..Len(url) : url[i] = "/"}
Greatest(S) == CHOOSE m \in S : \A n \in S : n <= m
ExpectedProtocolId(url) ==
    IF SlashesOf(url) = {} THEN url
    ELSE LET last == Greatest(SlashesOf(url))
             before == SlashesOf(url) \ {last}
             from == IF before = {} THEN 1 ELSE Greatest(before) + 1
         IN  [i \in 1..(Len(url) - from + 1) |->
                 IF from + i - 1 = last THEN "-" ELSE url[from + i - 1]]

\* the protocols of the batch in row order, each with its trial's number
OwnedProtocols(batch) ==
    Concat([k \in 1..Len(Kept(batch)) |->
              [j \in 1..Len(Kept(batch)[k].protocols) |->
                  [eudract_number |-> Kept(batch)[k].card.eudract_number,
                   url |-> Kept(batch)[k].protocols[j].url]]])

\* C8: each protocol has one protocols row, whose protocol_id is the last two
\* "/"-separated segments of its URL joined by "-" and whose eudract_number is
\* that of the trial that owns the protocol.
C8_ProtocolIdentity ==
    Returned =>
        /\ Len(ret.protocols) = Len(OwnedProtocols(Arg))
        /\ \A r \in 1..Len(ret.protocols) :
             /\ ret.protocols[r].url = OwnedProtocols(Arg)[r].url
             /\ ret.protocols[r].eudract_number = OwnedProtocols(Arg)[r].eudract_number
             /\ ret.protocols[r].protocol_id = ExpectedProtocolId(ret.protocols[r].url)

C8_Witness ==
    /\ Returned
    /\ \E i, j \in 1..Len(ret.protocols) :
         /\ ret.protocols[i].eudract_number = "E2"
         /\ ret.protocols[j].eudract_number = "E2"
         /\ ret.protocols[i].url = UrlDE
         /\ ret.protocols[j].url = UrlFR
         /\ ret.protocols[i].protocol_id = <<"T", "-", "D">>
         /\ ret.protocols[j].protocol_id = <<"T", "-", "F">>
    /\ \E i \in 1..Len(ret.protocols) : ret.protocols[i].eudract_number = "E1"

YieldsText(page) == "text" \in DOMAIN page /\ Len(page.text) > 0
ExpectedText(doc) ==
    Concat([i \in 1..Len(doc) |-> IF YieldsText(doc[i]) THEN doc[i].text \o <<"\n">> ELSE <<>>])
ExpectedTables(doc) == Concat([i \in 1..Len(doc) |-> doc[i].tables])

\* C9: for the first entry of the archive the extractor returns the texts of
\* the pages that have text, each followed by a newline, in page order, and
\* all tables in page order then in-page order; ("", []) when there is nothing.
C9_ExtractResult ==
    pc = "done" =>
        /\ zip_bytes # <<>>
        /\ text = ExpectedText(Head(zip_bytes))
        /\ tables = ExpectedTables(Head(zip_bytes))
        /\ (\A i \in 1..Len(Head(zip_bytes)) :
               ~YieldsText(Head(zip_bytes)[i]) /\ Head(zip_bytes)[i].tables = <<>>)
           => (text = <<>> /\ tables = <<>>)

C9_Witness ==
    /\ pc = "done"
    /\ Len(zip_bytes) = 2
    /\ Head(zip_bytes) = << [tables |-> <<>>], [text |-> <<"T">>, tables |-> <<"t1">>] >>
    /\ text = <<"T", "\n">>
    /\ tables = <<"t1">>

Unparsable(s) == ~(Len(s) = 3 /\ s[2] \in 1..12 /\ s[3] \in 1..DaysInMonth(s[1], s[2]))

\* C10: a trial whose start_date cannot be parsed still gets its cards row,
\* with start_date null; a call raises only for a reason other than dates.
C10_LenientStartDate ==
    /\ Returned =>
          /\ Len(ret.cards) = Len(Kept(Arg))
          /\ \A k \in 1..Len(Kept(Arg)) :
                Unparsable(Kept(Arg)[k].card.start_date)
                    => ret.cards[k].start_date = [kind |-> "None"]
    /\ (calls >= 1 /\ ret.kind = "raised") =>
          \E k \in 1..Len(Kept(Arg)) :
              TitleUnrecoverable(Kept(Arg)[k]) \/ LacksSummaryUrl(Kept(Arg)[k])

C10_Witness ==
    /\ Returned
    /\ Len(ret.cards) = 2
    /\ \E k \in 1..Len(Kept(Arg)) :
         /\ Kept(Arg)[k].card.start_date = DateBadDay
         /\ ret.cards[k].start_date = [kind |-> "None"]
    /\ \E k \in 1..Len(Kept(Arg)) :
         ret.cards[k].start_date = [kind |-> "Timestamp", year |-> 2020, month |-> 2, day |-> 29]

====
